---- MODULE Spec2Model ----
(***************************************************************************)
(* A model of the parkour server of src/src/main.rs: the seeded foothold   *)
(* generator, the per-player run state (window, score, combo, recording),  *)
(* the global highscore record, the best-score mapping with its top-15     *)
(* snapshot, and the ghost requests, driven tick by tick in the order the  *)
(* systems are scheduled in main().                                        *)
(*                                                                         *)
(* A BlockPos is a tuple <<x, y, z>>.  The wall clock is the variable now, *)
(* in milliseconds; every SystemTime::now() of one tick reads it.          *)
(***************************************************************************)
EXTENDS Integers, Sequences, FiniteSets, TLC

VARIABLES
    now,                \* the wall clock, ms since the epoch
    tick,               \* the number of ticks the server has run
    pc,                 \* the system of the Update schedule that runs next
    todo,               \* the players the running system has yet to visit
    hdc,                \* handle_disconnected_clients has run in this tick
    conn,               \* per player: "none", "added", "active", "left"
    pos,                \* per player: the block position under the player
    st,                 \* per player: the GameState component
    rm,                 \* per player: the ReplayMode component (0: none, else the npc)
    npcs,               \* the live ReplayNpc entities, by entity id
    next_npc,           \* the next entity id a spawned npc gets
    highscore,          \* Globals.highscore (NoHighScore: None)
    scores,             \* ScoreTracker.scores, a mapping name -> best score
    last_saved_top_15,  \* ScoreTracker.last_saved_top_15
    disk,               \* the content of gamedata.dat (NoFile: absent)
    run,                \* history, per player: how the current run's path began and grew
    hs_run,             \* history: the run record of the run the highscore was taken from
    ev                  \* history: what the last step did (the landing, fall or request seen)

vars == <<now, tick, pc, todo, hdc, conn, pos, st, rm, npcs, next_npc, highscore, scores,
          last_saved_top_15, disk, run, hs_run, ev>>

-----------------------------------------------------------------------------
(* Program constants *)

START_POS == <<0, 100, 0>>

\* the gold block of the replay trigger: START_POS.x + 2, same y and z
GOLD_BLOCK_POS == <<START_POS[1] + 2, START_POS[2], START_POS[3]>>

\* the number of footholds generated after the spawn foothold on a reset
INITIAL_BLOCKS == 10

\* out_of_bounds: pos.y < START_POS.y - 32
FALL_DEPTH == 32

\* the bias switches to START_POS.y when last_pos.y is more than 30 away from it
BIAS_RANGE == 30

\* the leaderboard keeps the 15 highest scores
TOP_K == 15

\* the combo divides the time budget by 2 every 45
COMBO_HALVING == 45

-----------------------------------------------------------------------------
(* Bounds of the model *)

\* Spec runs MaxTicks ticks, with landings while a run's score stays within MaxScore
MaxTicks == 3

MaxScore == 3

\* at most MaxNpcs ghost requests are offered in one behaviour
MaxNpcs == 2

\* SpecSolo, SpecRun and SpecDeep run one player for SoloTicks, RunTicks and DeepTicks
\* ticks, with landings while the score stays within MaxScore, RunScore and DeepScore
SoloTicks == 6

RunTicks == 3

RunScore == 12

DeepTicks == 8

DeepScore == 22

\* SpecBoard has BoardSize names submit scores of 1..BoardScore
BoardSize == 16

BoardScore == 4

\* SpecGen generates GenSteps footholds
GenSteps == 6

Players == {"a", "b"}

-----------------------------------------------------------------------------
(* The random stream.  StdRng is modelled as a small linear congruential   *)
(* generator: a stream is a function of its seed alone, and every draw     *)
(* advances it by one word.                                                *)

\* StdRng::seed_from_u64
seed_from_u64(seed) == seed % 7

\* one word of the stream: the state after the draw is the word drawn
RngStep(r) == (3 * r + 4) % 7

\* rng.gen_range(lo..hi): the value drawn and the stream after the draw
gen_range(lo, hi, r) == [v |-> lo + (RngStep(r) % (hi - lo)), rng |-> RngStep(r)]

-----------------------------------------------------------------------------
(* PathGenerator *)

\* a generate_random_block whose depth step does not depend on the height step
generate_random_block_flat(p, target_y, r) ==
    LET dy == IF target_y = 0 THEN gen_range(-1, 2, r)
              ELSE IF target_y > p[2] THEN [v |-> 1, rng |-> r]
              ELSE [v |-> -1, rng |-> r]
        dz == gen_range(1, 4, dy.rng)
        dx == gen_range(-3, 4, dz.rng)
    IN  [block |-> <<p[1] + dx.v, p[2] + dy.v, p[3] + dz.v>>, rng |-> dx.rng]

\* generate_random_block(pos, target_y, rng): the new block and the stream after it
generate_random_block(p, target_y, r) ==
    LET dy == IF target_y = 0 THEN gen_range(-1, 2, r)
              ELSE IF target_y > p[2] THEN [v |-> 1, rng |-> r]
              ELSE [v |-> -1, rng |-> r]
        dz == IF dy.v = 1 THEN gen_range(1, 3, dy.rng)
              ELSE IF dy.v = -1 THEN gen_range(2, 5, dy.rng)
              ELSE gen_range(1, 4, dy.rng)
        dx == gen_range(-3, 4, dz.rng)
    IN  [block |-> <<p[1] + dx.v, p[2] + dy.v, p[3] + dz.v>>, rng |-> dx.rng]

\* a bias mode that turns to the baseline only beyond twice the range
NextTargetYLate(last_pos, target_y) ==
    IF last_pos[2] = START_POS[2] THEN 0
    ELSE IF \/ last_pos[2] < START_POS[2] - 2 * BIAS_RANGE
            \/ last_pos[2] > START_POS[2] + 2 * BIAS_RANGE
         THEN START_POS[2]
         ELSE target_y

\* the bias mode after a generation from last_pos
NextTargetY(last_pos, target_y) ==
    IF last_pos[2] = START_POS[2] THEN 0
    ELSE IF last_pos[2] < START_POS[2] - BIAS_RANGE \/ last_pos[2] > START_POS[2] + BIAS_RANGE
         THEN START_POS[2]
         ELSE target_y

\* a generate_next_block that keeps the oldest foothold of a sliding window
generate_next_block_keep(s, in_game, t) ==
    LET s1 == IF in_game THEN [s EXCEPT !.score = @ + 1] ELSE s
        last_pos == s1.blocks[Len(s1.blocks)]
        g == generate_random_block(last_pos, s1.target_y, s1.rng)
    IN  [s1 EXCEPT !.blocks = Append(@, g.block),
                   !.target_y = NextTargetY(last_pos, s1.target_y),
                   !.rng = RngStep(g.rng),
                   !.last_block_timestamp = t]

\* a generate_next_block whose stream is stirred by the wall clock
generate_next_block_clocked(s, in_game, t) ==
    LET s1 == IF in_game
              THEN [s EXCEPT !.blocks = Tail(@), !.score = @ + 1]
              ELSE s
        last_pos == s1.blocks[Len(s1.blocks)]
        g == generate_random_block(last_pos, s1.target_y, RngStep(s1.rng + t \div 500))
    IN  [s1 EXCEPT !.blocks = Append(@, g.block),
                   !.target_y = NextTargetY(last_pos, s1.target_y),
                   !.rng = RngStep(g.rng),
                   !.last_block_timestamp = t]

\* generate_next_block(state, layer, in_game) at wall-clock time t
generate_next_block(s, in_game, t) ==
    LET s1 == IF in_game
              THEN [s EXCEPT !.blocks = Tail(@), !.score = @ + 1]
              ELSE s
        last_pos == s1.blocks[Len(s1.blocks)]
        g == generate_random_block(last_pos, s1.target_y, s1.rng)
    IN  [s1 EXCEPT !.blocks = Append(@, g.block),
                   !.target_y = NextTargetY(last_pos, s1.target_y),
                   \* BLOCK_TYPES.choose(&mut state.rng) draws one more word
                   !.rng = RngStep(g.rng),
                   !.last_block_timestamp = t]

\* n calls of generate_next_block in a row
RECURSIVE GenerateBlocks(_, _, _, _)
GenerateBlocks(s, n, in_game, t) ==
    IF n = 0 THEN s
    ELSE GenerateBlocks(generate_next_block(s, in_game, t), n - 1, in_game, t)

-----------------------------------------------------------------------------
(* RunState: the GameState component *)

\* the GameState init_clients inserts
InitialGameState(seed) ==
    [blocks |-> <<>>, score |-> 0, combo |-> 0, target_y |-> 0,
     last_block_timestamp |-> 0, seed |-> seed, movements |-> <<>>,
     movement_start_time |-> 0, rng |-> seed_from_u64(seed),
     recording_started |-> FALSE]

\* the value of st[p] while player p has no GameState
Absent == InitialGameState(0)

\* SystemTime::now().duration_since(UNIX_EPOCH).as_secs()
as_secs(t) == t \div 1000

\* a reset that keeps the movement log of the run that ended
ResetStateKeepLog(s, t) ==
    LET s1 == [s EXCEPT !.score = 0, !.combo = 0, !.seed = as_secs(t),
                        !.movement_start_time = t,
                        !.rng = seed_from_u64(as_secs(t)),
                        !.recording_started = FALSE,
                        !.blocks = <<START_POS>>]
    IN  GenerateBlocks(s1, INITIAL_BLOCKS, FALSE, t)

\* the reset of reset_clients: score, combo, seed, log, stream, flag, then the window
ResetState(s, t) ==
    LET s1 == [s EXCEPT !.score = 0, !.combo = 0, !.seed = as_secs(t),
                        !.movements = <<>>, !.movement_start_time = t,
                        !.rng = seed_from_u64(as_secs(t)),
                        !.recording_started = FALSE,
                        !.blocks = <<START_POS>>]
    IN  GenerateBlocks(s1, INITIAL_BLOCKS, FALSE, t)

\* a ghost request that leaves the old window in place
GhostStateKeep(s, hs, t) ==
    LET s1 == [s EXCEPT !.seed = hs.seed, !.rng = seed_from_u64(hs.seed), !.score = 0]
    IN  GenerateBlocks(s1, INITIAL_BLOCKS, FALSE, t)

\* the reseeding of a ghost request: seed, stream and score, then the window
GhostState(s, hs, t) ==
    LET s1 == [s EXCEPT !.seed = hs.seed, !.rng = seed_from_u64(hs.seed),
                        !.score = 0, !.blocks = <<START_POS>>]
    IN  GenerateBlocks(s1, INITIAL_BLOCKS, FALSE, t)

\* a position that takes a block outside the window for the foothold after the first
BlockIndexOrNext(blocks, b) ==
    IF \E k \in 1..Len(blocks) : blocks[k] = b
    THEN (CHOOSE k \in 1..Len(blocks) :
            blocks[k] = b /\ \A j \in 1..(k - 1) : blocks[j] # b) - 1
    ELSE 1

\* state.blocks.iter().position(|block| *block == pos_under_player), 0-based; -1: None
BlockIndex(blocks, b) ==
    IF \E k \in 1..Len(blocks) : blocks[k] = b
    THEN (CHOOSE k \in 1..Len(blocks) :
            blocks[k] = b /\ \A j \in 1..(k - 1) : blocks[j] # b) - 1
    ELSE -1

\* 1000 * 2^(-r/45) for r in 0..44, in units of 1/10000
BudgetFrac ==
    <<10000000, 9847148, 9696631, 9548416, 9402466, 9258747, 9117225, 8977866,
      8840637, 8705506, 8572440, 8441408, 8312379, 8185322, 8060208, 7937005,
      7815686, 7696221, 7578583, 7462742, 7348672, 7236346, 7125737, 7016818,
      6909564, 6803950, 6699950, 6597540, 6496695, 6397391, 6299605, 6203314,
      6108495, 6015125, 5923183, 5832645, 5743492, 5655701, 5569252, 5484125,
      5400299, 5317754, 5236471, 5156430, 5077613>>

\* 2^n for a natural n
RECURSIVE Pow2(_)
Pow2(n) == IF n = 0 THEN 1 ELSE 2 * Pow2(n - 1)

\* (1000_f32 * index / 2_f32.powf(combo / 45.0)) as u128: the cast truncates.
\* 2^(combo/45) = 2^(combo div 45) * 2^((combo mod 45)/45)
max_time_taken(index, combo) ==
    (index * BudgetFrac[(combo % COMBO_HALVING) + 1])
        \div (10000 * Pow2(combo \div COMBO_HALVING))

\* a combo that a slow landing leaves as it is
ComboAfterKeep(combo, index, elapsed) ==
    IF elapsed < max_time_taken(index, combo) THEN combo + index ELSE combo

\* the combo after a landing at index, elapsed ms after the last generated block
ComboAfter(combo, index, elapsed) ==
    IF elapsed < max_time_taken(index, combo) THEN combo + index ELSE 0

\* the landing of manage_blocks at index > 0
LandState(s, index, t) ==
    LET s1 == IF ~s.recording_started /\ index = 1
              THEN [s EXCEPT !.recording_started = TRUE, !.movement_start_time = t]
              ELSE s
        s2 == [s1 EXCEPT !.combo = ComboAfter(s.combo, index, t - s.last_block_timestamp)]
    IN  GenerateBlocks(s2, index, TRUE, t)

\* the sample record_player_movements appends (the position is the block under the player)
RecordState(s, position, t) ==
    IF s.recording_started
    THEN [s EXCEPT !.movements =
            Append(@, [position |-> position, timestamp |-> t - s.movement_start_time])]
    ELSE s

-----------------------------------------------------------------------------
(* LeaderboardStore *)

\* Option<HighScore>: None is the empty sequence, Some(h) is <<h>>
NoHighScore == <<>>

\* gamedata.dat: absent is the empty sequence, else <<SaveData>>
NoFile == <<>>

\* an empty HashMap
EmptyScores == [n \in {} |-> 0]

\* the orders in which a HashMap's iterator can yield the keys S
Orders(S) == {o \in [1..Cardinality(S) -> S] : \A i, j \in DOMAIN o : o[i] = o[j] => i = j}

\* the entries left in iteration order
SortByNothing(seq) == seq

\* sort_by(|a, b| b.1.cmp(&a.1)): descending by score, stable
RECURSIVE SortByScore(_)
SortByScore(seq) ==
    IF seq = <<>> THEN <<>>
    ELSE LET x == Head(seq)
             rest == SortByScore(Tail(seq))
             k == Cardinality({j \in DOMAIN rest : rest[j][2] > x[2]})
         IN  SubSeq(rest, 1, k) \o <<x>> \o SubSeq(rest, k + 1, Len(rest))

\* a truncate that cuts nothing
TruncateNone(seq, n) == seq

\* truncate(n) and iter().take(n)
Truncate(seq, n) == SubSeq(seq, 1, IF Len(seq) < n THEN Len(seq) ELSE n)

\* the (name, score) entries of sc as scores.iter() yields them, ord ordering all names
Entries(sc, ord) ==
    LET keys == SelectSeq(ord, LAMBDA n : n \in DOMAIN sc)
    IN  [i \in DOMAIN keys |-> <<keys[i], sc[keys[i]]>>]

\* current_top_15: the entries in iteration order, sorted, cut to 15
CurrentTop15(sc, ord) == Truncate(SortByScore(Entries(sc, ord)), TOP_K)

\* save_game_data(highscore, scoreboard): the file after a write that succeeded
save_game_data(hs, scoreboard) ==
    <<[highscore |-> hs, scoreboard |-> Truncate(scoreboard, TOP_K)]>>

\* ScoreTracker.scores after setup has inserted the scoreboard's entries in order
LoadedScores(scoreboard) ==
    [n \in {scoreboard[k][1] : k \in DOMAIN scoreboard} |->
        scoreboard[CHOOSE k \in DOMAIN scoreboard :
                      /\ scoreboard[k][1] = n
                      /\ \A j \in DOMAIN scoreboard : scoreboard[j][1] = n => j <= k][2]]

\* a mapping that takes every submitted score
BestAfterLast(sc, name, new_score) == (name :> new_score) @@ sc

\* the mapping after a landing of name with new_score: old_score is 0 without an entry
BestAfter(sc, name, new_score) ==
    LET old_score == IF name \in DOMAIN sc THEN sc[name] ELSE 0
    IN  IF new_score > old_score THEN (name :> new_score) @@ sc ELSE sc

\* an is_new_highscore that an equal score passes
IsNewHighscoreOrEqual(hs, s) ==
    IF hs # NoHighScore THEN s.score >= hs[1].score ELSE s.score > 0

\* is_new_highscore
IsNewHighscore(hs, s) ==
    IF hs # NoHighScore THEN s.score > hs[1].score ELSE s.score > 0

\* a HighScore built after the run's log was cleared
MakeHighScoreCleared(name, s) ==
    [username |-> name, score |-> s.score, seed |-> s.seed, movements |-> <<>>]

\* the HighScore built from a run
MakeHighScore(name, s) ==
    [username |-> name, score |-> s.score, seed |-> s.seed, movements |-> s.movements]

-----------------------------------------------------------------------------
(* The state of the server *)

Clients == {p \in Players : conn[p] \in {"added", "active"}}

Left == {p \in Players : conn[p] = "left"}

\* the position a player falls to: one block below the lowest position in bounds
FallPos == <<START_POS[1], START_POS[2] - FALL_DEPTH - 2, START_POS[3]>>

\* out_of_bounds, for the block under the player: (pos.y as i32) < START_POS.y - 32
OutOfBounds(under) == under[2] + 1 < START_POS[2] - FALL_DEPTH

\* history of a run: the bias it was seeded under, every foothold it was given, and,
\* for a ghost run, the path of the recorded run it replays
NoRun == [t0 |-> 0, path |-> <<>>, ref |-> <<>>]

NoEvent ==
    [kind |-> "none", p |-> "", i |-> 0, old |-> Absent, hs |-> NoHighScore,
     ghost |-> 0, live |-> FALSE, write |-> "none"]

\* the outcome of the write of gamedata.dat in a step: none attempted, Ok or Err
Written(attempted, ok) == IF ~attempted THEN "none" ELSE IF ok THEN "ok" ELSE "failed"

\* what a step did for p: the state, the record and the ghost p had before it
Event(kind, p, i, write) ==
    [kind |-> kind, p |-> p, i |-> i, old |-> st[p], hs |-> highscore,
     ghost |-> rm[p], live |-> rm[p] \in DOMAIN npcs, write |-> write]

\* the wall-clock time the server starts at
StartTime == 4 * 1000

\* setup() with gamedata.dat holding file: the highscore and the scoreboard of the
\* file, no client
InitFrom(file) ==
    /\ now = StartTime
    /\ tick = 0
    /\ pc = "input"
    /\ todo = {}
    /\ hdc = "done"
    /\ conn = [p \in Players |-> "none"]
    /\ pos = [p \in Players |-> START_POS]
    /\ st = [p \in Players |-> Absent]
    /\ rm = [p \in Players |-> 0]
    /\ npcs = <<>>
    /\ next_npc = 1
    /\ highscore = IF file = NoFile THEN NoHighScore ELSE file[1].highscore
    /\ scores = IF file = NoFile THEN EmptyScores ELSE LoadedScores(file[1].scoreboard)
    /\ last_saved_top_15 = IF file = NoFile THEN <<>> ELSE file[1].scoreboard
    /\ disk = file
    /\ run = [p \in Players |-> NoRun]
    /\ hs_run = NoRun
    /\ ev = NoEvent

\* the server starts with no gamedata.dat
Init == InitFrom(NoFile)

DespawnNone(ns, id) == ns

\* commands.entity(npc).insert(Despawned): the entity is gone after the tick
Despawn(ns, id) == [n \in DOMAIN ns \ {id} |-> ns[n]]

\* the system that runs after the per-player system at pc has visited p
Advance(p) ==
    IF todo = {p}
    THEN IF pc = "reset"
         THEN pc' = "blocks" /\ todo' = Clients
         ELSE pc' = "record" /\ todo' = {}
    ELSE pc' = pc /\ todo' = todo \ {p}

-----------------------------------------------------------------------------
(* The inputs of a tick: the clock, the players' moves, joins and leaves *)

\* a move: stay, join, leave, step on the gold block, fall, or land on window index i
Land(J) == {<<"land", i>> : i \in J}

AllMoves(J) ==
    {<<"stay", 0>>, <<"join", 0>>, <<"leave", 0>>, <<"gold", 0>>, <<"fall", 0>>} \cup Land(J)

CanMove(p, m, maxScore) ==
    CASE m[1] = "stay" -> TRUE
      [] m[1] = "join" -> conn[p] = "none"
      [] m[1] = "leave" -> conn[p] = "active"
      [] m[1] = "gold" -> conn[p] = "active" /\ next_npc <= MaxNpcs
      [] m[1] = "fall" -> conn[p] = "active"
      [] m[1] = "land" -> /\ conn[p] = "active"
                          /\ m[2] < Len(st[p].blocks)
                          /\ st[p].score + m[2] <= maxScore

MovedPos(p, m) ==
    CASE m[1] = "gold" -> GOLD_BLOCK_POS
      [] m[1] = "fall" -> FallPos
      [] m[1] = "land" -> st[p].blocks[m[2] + 1]
      [] m[1] = "join" -> START_POS
      [] OTHER -> pos[p]

\* the start of a tick at clock time t: the entities of the players who left in the
\* last tick are gone, and each player of P makes a move of M
Tick(P, M, maxScore, t) ==
    /\ pc = "input"
    /\ hdc = "done"
    /\ \E mv \in [Players -> M] :
        /\ \A p \in Players : CanMove(p, mv[p], maxScore) /\ (p \notin P => mv[p][1] = "stay")
        /\ \A p \in Players : conn[p] = "left" => mv[p][1] = "stay"
        /\ now' = t
        /\ conn' = [p \in Players |->
                       IF conn[p] = "left" THEN "none"
                       ELSE IF mv[p][1] = "join" THEN "added"
                       ELSE IF mv[p][1] = "leave" THEN "left"
                       ELSE conn[p]]
        /\ pos' = [p \in Players |-> IF conn[p] = "left" THEN START_POS ELSE MovedPos(p, mv[p])]
        /\ st' = [p \in Players |-> IF conn[p] = "left" THEN Absent ELSE st[p]]
        /\ rm' = [p \in Players |-> IF conn[p] = "left" THEN 0 ELSE rm[p]]
        /\ run' = [p \in Players |-> IF conn[p] = "left" THEN NoRun ELSE run[p]]
        /\ hdc' = IF \E p \in Players : mv[p][1] = "leave" THEN "pending" ELSE "done"
        /\ LET cl == {p \in Players : conn'[p] \in {"added", "active"}}
           IN  /\ pc' = IF \E p \in Players : mv[p][1] = "join" THEN "init"
                        ELSE IF cl # {} THEN "reset" ELSE "record"
               /\ todo' = IF pc' = "reset" THEN cl ELSE {}
    /\ ev' = NoEvent
    /\ UNCHANGED <<npcs, next_npc, highscore, scores, last_saved_top_15, disk, hs_run>>

\* the start of a tick, of at most maxTicks: the clock advances by d in D
BeginTick(P, M, D, maxScore, maxTicks) ==
    /\ tick < maxTicks
    /\ tick' = tick + 1
    /\ \E d \in D : Tick(P, M, maxScore, now + d)

\* init_clients: every client added in this tick gets its GameState
InitClients ==
    /\ pc = "init"
    /\ hdc # "running"
    /\ st' = [p \in Players |->
                 IF conn[p] = "added" THEN InitialGameState(as_secs(now)) ELSE st[p]]
    /\ pc' = "reset"
    /\ todo' = Clients
    /\ ev' = NoEvent
    /\ UNCHANGED <<now, tick, hdc, conn, pos, rm, npcs, next_npc, highscore, scores,
                   last_saved_top_15, disk, run, hs_run>>

-----------------------------------------------------------------------------
(* reset_clients, for one client of the query *)

\* an end of a run that sets the record only when there is none
TerminateFirstOnly(p, ord, ok) ==
    IF highscore = NoHighScore /\ st[p].score > 0
    THEN /\ highscore' = <<MakeHighScore(p, st[p])>>
         /\ hs_run' = run[p]
         /\ disk' = IF ok
                    THEN save_game_data(highscore', CurrentTop15(scores, ord))
                    ELSE disk
    ELSE UNCHANGED <<highscore, hs_run, disk>>

\* the end of a run of p: the highscore comparison and the save, in reset_clients
\* and in handle_disconnected_clients alike.  ok: the write of the file succeeds
Terminate(p, ord, ok) ==
    IF IsNewHighscore(highscore, st[p])
    THEN /\ highscore' = <<MakeHighScore(p, st[p])>>
         /\ hs_run' = run[p]
         /\ disk' = IF ok
                    THEN save_game_data(highscore', CurrentTop15(scores, ord))
                    ELSE disk
    ELSE UNCHANGED <<highscore, hs_run, disk>>

ResetClient(p, ord, ok) ==
    /\ pc = "reset"
    /\ hdc # "running"
    /\ p \in todo
    /\ LET added == conn[p] = "added"
           out_of_bounds == OutOfBounds(pos[p])
       IN  IF out_of_bounds \/ added
           THEN /\ IF out_of_bounds /\ ~added
                   THEN Terminate(p, ord, ok)
                   ELSE UNCHANGED <<highscore, hs_run, disk>>
                /\ npcs' = Despawn(npcs, rm[p])
                /\ rm' = [rm EXCEPT ![p] = 0]
                /\ st' = [st EXCEPT ![p] = ResetState(st[p], now)]
                /\ pos' = [pos EXCEPT ![p] = START_POS]
                /\ conn' = [conn EXCEPT ![p] = "active"]
                /\ run' = [run EXCEPT ![p] = [t0 |-> st[p].target_y,
                                              path |-> st'[p].blocks, ref |-> <<>>]]
                /\ ev' = Event(IF added THEN "first" ELSE "fall", p, 0,
                               Written(out_of_bounds /\ ~added
                                          /\ IsNewHighscore(highscore, st[p]), ok))
           ELSE /\ ev' = NoEvent
                /\ UNCHANGED <<highscore, hs_run, disk, npcs, rm, st, pos, conn, run>>
    /\ Advance(p)
    /\ UNCHANGED <<now, tick, hdc, next_npc, scores, last_saved_top_15>>

-----------------------------------------------------------------------------
(* manage_blocks, for one client of the query *)

\* a position of whole coordinates, as the fraction num / den it is
Exactly(position) == [num |-> position, den |-> 1]

\* a ReplayNpc that keeps nothing of the record's log
NewNpcWithoutLog(p, hs, t) ==
    [movements |-> <<>>, current_index |-> 0, start_time |-> t,
     replay_started |-> FALSE, owner_entity |-> p, position |-> Exactly(START_POS)]

\* the ReplayNpc a ghost request spawns for owner p from the record hs
NewNpc(p, hs, t) ==
    [movements |-> hs.movements, current_index |-> 0, start_time |-> t,
     replay_started |-> FALSE, owner_entity |-> p,
     position |-> Exactly(IF hs.movements # <<>> THEN hs.movements[1].position
                          ELSE START_POS)]

\* the last n footholds of a window: the ones n generations appended
Appended(blocks, n) == SubSeq(blocks, Len(blocks) - n + 1, Len(blocks))

\* a score tracker update that takes the new score back when the write fails
UpdateScoreTrackerOrRollBack(name, new_score, ord, ok) ==
    LET sc == BestAfter(scores, name, new_score)
        current_top_15 == CurrentTop15(sc, ord)
    IN  IF sc # scores /\ current_top_15 # last_saved_top_15
        THEN IF ok
             THEN /\ scores' = sc
                  /\ disk' = save_game_data(highscore, current_top_15)
                  /\ last_saved_top_15' = current_top_15
             ELSE UNCHANGED <<scores, disk, last_saved_top_15>>
        ELSE scores' = sc /\ UNCHANGED <<disk, last_saved_top_15>>

\* the score tracker update of a landing: the mapping, then the snapshot and the file
\* when the top 15 changed.  ok: the write of the file succeeds
UpdateScoreTracker(name, new_score, ord, ok) ==
    LET sc == BestAfter(scores, name, new_score)
        current_top_15 == CurrentTop15(sc, ord)
    IN  /\ scores' = sc
        /\ IF sc # scores /\ current_top_15 # last_saved_top_15 /\ ok
           THEN /\ disk' = save_game_data(highscore, current_top_15)
                /\ last_saved_top_15' = current_top_15
           ELSE UNCHANGED <<disk, last_saved_top_15>>

ManageBlocks(p, ord, ok) ==
    /\ pc = "blocks"
    /\ hdc # "running"
    /\ p \in todo
    /\ LET pos_under_player == pos[p]
           ghost == pos_under_player = GOLD_BLOCK_POS /\ highscore # NoHighScore
           s1 == IF ghost THEN GhostState(st[p], highscore[1], now) ELSE st[p]
           index == BlockIndex(s1.blocks, pos_under_player)
           s2 == IF index > 0 THEN LandState(s1, index, now) ELSE s1
       IN  /\ st' = [st EXCEPT ![p] = s2]
           /\ IF ghost
              THEN /\ npcs' = Despawn(npcs, rm[p]) @@ (next_npc :> NewNpc(p, highscore[1], now))
                   /\ rm' = [rm EXCEPT ![p] = next_npc]
                   /\ next_npc' = next_npc + 1
                   /\ pos' = [pos EXCEPT ![p] = START_POS]
              ELSE UNCHANGED <<npcs, rm, next_npc, pos>>
           /\ run' = [run EXCEPT ![p] =
                        IF ghost
                        THEN [t0 |-> st[p].target_y, path |-> s1.blocks, ref |-> hs_run.path]
                        ELSE IF index > 0
                        THEN [@ EXCEPT !.path = @ \o Appended(s2.blocks, index)]
                        ELSE @]
           /\ IF index > 0
              THEN UpdateScoreTracker(p, s2.score, ord, ok)
              ELSE UNCHANGED <<scores, disk, last_saved_top_15>>
           /\ ev' = IF ghost THEN Event("ghost", p, 0, "none")
                    ELSE IF pos_under_player = GOLD_BLOCK_POS THEN Event("nodata", p, 0, "none")
                    ELSE IF index > 0
                    THEN Event("land", p, index,
                               Written(/\ BestAfter(scores, p, s2.score) # scores
                                       /\ CurrentTop15(BestAfter(scores, p, s2.score), ord)
                                             # last_saved_top_15, ok))
                    ELSE NoEvent
    /\ Advance(p)
    /\ UNCHANGED <<now, tick, hdc, conn, highscore, hs_run>>

-----------------------------------------------------------------------------
(* record_player_movements and update_replay_npcs *)

RecordPlayerMovements ==
    /\ pc = "record"
    /\ hdc # "running"
    /\ st' = [p \in Players |->
                 IF p \in Clients THEN RecordState(st[p], pos[p], now) ELSE st[p]]
    /\ pc' = "npcs"
    /\ ev' = NoEvent
    /\ UNCHANGED <<now, tick, todo, hdc, conn, pos, rm, npcs, next_npc, highscore, scores,
                   last_saved_top_15, disk, run, hs_run>>

\* a cursor that moves by one sample at most in an update
AdvanceIndexOnce(movements, current_index, elapsed) ==
    IF current_index < Len(movements) - 1 /\ movements[current_index + 2].timestamp <= elapsed
    THEN current_index + 1
    ELSE current_index

\* the while loop over current_index (0-based) of update_replay_npcs
RECURSIVE AdvanceIndex(_, _, _)
AdvanceIndex(movements, current_index, elapsed) ==
    IF current_index < Len(movements) - 1 /\ movements[current_index + 2].timestamp <= elapsed
    THEN AdvanceIndex(movements, current_index + 1, elapsed)
    ELSE current_index

\* a - b, saturating at 0
saturating_sub(a, b) == IF a > b THEN a - b ELSE 0

\* next + (cur - next) * t: the interpolation run from the wrong end
InterpolateFromNext(cur, next, num, den) ==
    [num |-> [k \in DOMAIN cur |-> next[k] * den + (cur[k] - next[k]) * num], den |-> den]

\* cur + (next - cur) * t, for t = num / den: each coordinate as a fraction over den
Interpolate(cur, next, num, den) ==
    [num |-> [k \in DOMAIN cur |-> cur[k] * den + (next[k] - cur[k]) * num], den |-> den]

ReplayBeginsAtOnce(n) == conn[n.owner_entity] # "none" /\ ~n.replay_started

\* the playback of n begins in this update: its owner has scored and it has not begun
ReplayBegins(n) ==
    conn[n.owner_entity] # "none" /\ st[n.owner_entity].score > 0 /\ ~n.replay_started

\* one npc of update_replay_npcs at time t: the npc after it, and whether it is despawned
UpdateNpc(n, t) ==
    LET owner == n.owner_entity
        begin == ReplayBegins(n)
        n1 == IF begin THEN [n EXCEPT !.replay_started = TRUE, !.start_time = t] ELSE n
        len == Len(n1.movements)
        elapsed == saturating_sub(t, n1.start_time)
        index == AdvanceIndex(n1.movements, n1.current_index, elapsed)
        n2 == [n1 EXCEPT !.current_index = index]
        current_movement == n1.movements[index + 1]
        next_movement == n1.movements[index + 2]
        time_diff == next_movement.timestamp - current_movement.timestamp
        time_since_current == saturating_sub(elapsed, current_movement.timestamp)
        num == IF time_diff > 0
               THEN (IF time_since_current > time_diff THEN time_diff ELSE time_since_current)
               ELSE 1
        den == IF time_diff > 0 THEN time_diff ELSE 1
    IN  IF ~n1.replay_started THEN [npc |-> n1, despawned |-> FALSE]
        ELSE IF len = 0 THEN [npc |-> n1, despawned |-> TRUE]
        ELSE IF index >= len THEN [npc |-> n2, despawned |-> TRUE]
        ELSE IF index < len - 1
        THEN [npc |-> [n2 EXCEPT !.position =
                          Interpolate(current_movement.position, next_movement.position,
                                      num, den)],
              despawned |-> FALSE]
        ELSE [npc |-> [n2 EXCEPT !.position = Exactly(current_movement.position)],
              despawned |-> FALSE]

UpdateReplayNpcs ==
    /\ pc = "npcs"
    /\ hdc # "running"
    /\ npcs' = [id \in {i \in DOMAIN npcs : ~UpdateNpc(npcs[i], now).despawned} |->
                   UpdateNpc(npcs[id], now).npc]
    /\ pc' = "input"
    /\ ev' = NoEvent
    /\ UNCHANGED <<now, tick, todo, hdc, conn, pos, st, rm, next_npc, highscore, scores,
                   last_saved_top_15, disk, run, hs_run>>

-----------------------------------------------------------------------------
(* handle_disconnected_clients, for one removed client.  The system has no   *)
(* place in the order of the schedule: it runs once in a tick, between any   *)
(* two of the other systems.                                                 *)

BetweenSystems == pc \in {"reset", "blocks"} => todo = Clients

HandleDisconnected(p, ord, ok) ==
    /\ \/ hdc = "pending" /\ BetweenSystems /\ p \in Left
       \/ hdc = "running" /\ p \in todo
    /\ Terminate(p, ord, ok)
    /\ npcs' = Despawn(npcs, rm[p])
    /\ LET rest == (IF hdc = "pending" THEN Left ELSE todo) \ {p}
       IN  IF rest = {}
           THEN /\ hdc' = "done"
                /\ todo' = IF pc \in {"reset", "blocks"} THEN Clients ELSE {}
           ELSE /\ hdc' = "running"
                /\ todo' = rest
    /\ ev' = Event("disc", p, 0, Written(IsNewHighscore(highscore, st[p]), ok))
    /\ UNCHANGED <<now, tick, pc, conn, pos, st, rm, next_npc, scores, last_saved_top_15,
                   run>>

-----------------------------------------------------------------------------
(* The specifications *)

\* a write of gamedata.dat succeeds or fails
WriteOutcomes == BOOLEAN

\* Spec: two players, every move, landings at window index 1 or 2, ticks of 500 ms,
\* every write succeeding
Next ==
    \/ BeginTick(Players, AllMoves({1, 2}), {500}, MaxScore, MaxTicks)
    \/ InitClients
    \/ \E p \in Players, ord \in Orders(Players) : ResetClient(p, ord, TRUE)
    \/ \E p \in Players, ord \in Orders(Players) : ManageBlocks(p, ord, TRUE)
    \/ RecordPlayerMovements
    \/ UpdateReplayNpcs
    \/ \E p \in Players, ord \in Orders(Players) : HandleDisconnected(p, ord, TRUE)

Spec == Init /\ [][Next]_vars

\* SpecSolo: one player, every move, landings at window index 1 or 2, ticks of 500 ms,
\* writes that succeed or fail
NextSolo ==
    \/ BeginTick({"a"}, AllMoves({1, 2}), {500}, MaxScore, SoloTicks)
    \/ InitClients
    \/ \E p \in Players, ord \in Orders(Players), ok \in WriteOutcomes : ResetClient(p, ord, ok)
    \/ \E p \in Players, ord \in Orders(Players), ok \in WriteOutcomes : ManageBlocks(p, ord, ok)
    \/ RecordPlayerMovements
    \/ UpdateReplayNpcs
    \/ \E p \in Players, ord \in Orders(Players), ok \in WriteOutcomes :
            HandleDisconnected(p, ord, ok)

SpecSolo == Init /\ [][NextSolo]_vars

\* SpecWrites: two players who join, stay, leave, fall or land at window index 1, ticks
\* of 500 ms, writes that succeed or fail
NextWrites ==
    \/ BeginTick(Players, {<<"stay", 0>>, <<"join", 0>>, <<"leave", 0>>, <<"fall", 0>>}
                             \cup Land({1}), {500}, MaxScore, MaxTicks)
    \/ InitClients
    \/ \E p \in Players, ord \in Orders(Players), ok \in WriteOutcomes : ResetClient(p, ord, ok)
    \/ \E p \in Players, ord \in Orders(Players), ok \in WriteOutcomes : ManageBlocks(p, ord, ok)
    \/ RecordPlayerMovements
    \/ UpdateReplayNpcs
    \/ \E p \in Players, ord \in Orders(Players), ok \in WriteOutcomes :
            HandleDisconnected(p, ord, ok)

SpecWrites == Init /\ [][NextWrites]_vars

\* SpecRun: one player who joins, stays, falls or lands at any window index, ticks of
\* 100 ms or 984 ms
NextRun ==
    \/ BeginTick({"a"}, {<<"join", 0>>, <<"stay", 0>>, <<"fall", 0>>} \cup Land(1..INITIAL_BLOCKS),
                 {100, 984}, RunScore, RunTicks)
    \/ InitClients
    \/ \E p \in Players, ord \in Orders(Players) : ResetClient(p, ord, TRUE)
    \/ \E p \in Players, ord \in Orders(Players) : ManageBlocks(p, ord, TRUE)
    \/ RecordPlayerMovements
    \/ UpdateReplayNpcs

SpecRun == Init /\ [][NextRun]_vars

\* SpecDeep: one player who joins, falls, steps on the gold block or lands at window
\* index 1 or 10, in every tick, ticks of 500 ms: runs long enough for the bias to switch
NextDeep ==
    \/ BeginTick({"a"}, {<<"stay", 0>>, <<"join", 0>>, <<"gold", 0>>, <<"fall", 0>>} \cup Land({1, INITIAL_BLOCKS}),
                 {500}, DeepScore, DeepTicks)
    \/ InitClients
    \/ \E p \in Players, ord \in Orders(Players) : ResetClient(p, ord, TRUE)
    \/ \E p \in Players, ord \in Orders(Players) : ManageBlocks(p, ord, TRUE)
    \/ RecordPlayerMovements
    \/ UpdateReplayNpcs

SpecDeep == Init /\ [][NextDeep]_vars

-----------------------------------------------------------------------------
(* SpecBoard: the score tracker alone, started from a gamedata.dat of       *)
(* TOP_K - 1 entries, with the landings of BoardSize names reduced to the   *)
(* scores they submit.                                                      *)

BoardNames ==
    <<"n01", "n02", "n03", "n04", "n05", "n06", "n07", "n08", "n09", "n10",
      "n11", "n12", "n13", "n14", "n15", "n16", "n17", "n18", "n19", "n20">>

Names == {BoardNames[k] : k \in 1..BoardSize}

\* two orders a HashMap of the names can iterate in
BoardOrders ==
    {[k \in 1..BoardSize |-> BoardNames[k]],
     [k \in 1..BoardSize |-> BoardNames[BoardSize + 1 - k]]}

\* a file an earlier run of the server saved: TOP_K - 1 names, of scores descending to
\* BoardScore
BoardFile ==
    save_game_data(NoHighScore,
                   [k \in 1..(TOP_K - 1) |-> <<BoardNames[k], TOP_K - 1 + BoardScore - k>>])

InitBoard == InitFrom(BoardFile)

\* the score tracker update of manage_blocks for a landing of name that brought its
\* run to new_score
BoardSubmit(name, new_score, ord, ok) ==
    /\ UpdateScoreTracker(name, new_score, ord, ok)
    /\ UNCHANGED <<now, tick, pc, todo, hdc, conn, pos, st, rm, npcs, next_npc, highscore,
                   run, hs_run, ev>>

NextBoard ==
    \E name \in Names, new_score \in 1..BoardScore, ord \in BoardOrders, ok \in WriteOutcomes :
        BoardSubmit(name, new_score, ord, ok)

SpecBoard == InitBoard /\ [][NextBoard]_vars

-----------------------------------------------------------------------------
(* SpecGen: the generator alone.  Two runs are seeded alike and start from  *)
(* the spawn foothold under the same bias; each generates footholds at its  *)
(* own times, with or without sliding its window.                           *)

Seeds == 0..6

\* the GameState of reset_clients after state.blocks.push_back(START_POS)
SeededState(seed, target_y) ==
    [InitialGameState(seed) EXCEPT !.blocks = <<START_POS>>, !.target_y = target_y]

InitGen ==
    \E seed \in Seeds, target_y \in {0, START_POS[2]} :
        /\ now = StartTime
        /\ tick = 0
        /\ pc = "input"
        /\ todo = {}
        /\ hdc = "done"
        /\ conn = [p \in Players |-> "active"]
        /\ pos = [p \in Players |-> START_POS]
        /\ st = [p \in Players |-> SeededState(seed, target_y)]
        /\ rm = [p \in Players |-> 0]
        /\ npcs = <<>>
        /\ next_npc = 1
        /\ highscore = NoHighScore
        /\ scores = EmptyScores
        /\ last_saved_top_15 = <<>>
        /\ disk = NoFile
        /\ run = [p \in Players |-> [t0 |-> target_y, path |-> <<START_POS>>, ref |-> <<>>]]
        /\ hs_run = NoRun
        /\ ev = NoEvent

\* one call of generate_next_block on the state of p, d ms after the last call
GenStep(p, in_game, d) ==
    /\ tick < GenSteps
    /\ in_game => Len(st[p].blocks) > 1
    /\ tick' = tick + 1
    /\ now' = now + d
    /\ st' = [st EXCEPT ![p] = generate_next_block(st[p], in_game, now')]
    /\ run' = [run EXCEPT ![p].path = @ \o Appended(st'[p].blocks, 1)]
    /\ UNCHANGED <<pc, todo, hdc, conn, pos, rm, npcs, next_npc, highscore, scores,
                   last_saved_top_15, disk, hs_run, ev>>

NextGen == \E p \in Players, in_game \in BOOLEAN, d \in {0, 500} : GenStep(p, in_game, d)

SpecGen == InitGen /\ [][NextGen]_vars

-----------------------------------------------------------------------------
(* SpecPlay: the playback of a ghost alone.  A challenger has requested the  *)
(* ghost of a record whose log is any short log of non-decreasing            *)
(* timestamps, and has just landed; from then on the challenger stays where  *)
(* it is and the schedule keeps running.  The clock stops at PlayHorizon,    *)
(* after the last timestamp of every log, so that the ticks that follow      *)
(* repeat: a playback that goes on for ever is a cycle of the state graph.   *)

PlayLen == 3

PlayTicks == 6

PlayPositions == {START_POS, GOLD_BLOCK_POS}

PlayStamps == {0, 100, 200}

PlayDeltas == {50, 100}

PlayHorizon == StartTime + PlayTicks * 100

\* the logs of at most PlayLen samples with non-decreasing timestamps
PlayLogs ==
    {log \in UNION {[1..n -> [position : PlayPositions, timestamp : PlayStamps]] :
                      n \in 1..PlayLen} :
        \A k \in 1..(Len(log) - 1) : log[k].timestamp <= log[k + 1].timestamp}

PlayRecord(log) == [username |-> "b", score |-> MaxScore, seed |-> 4, movements |-> log]

\* the challenger after its ghost request and a first landing, at window index 2
PlayChallenger(hs) ==
    LandState(GhostState(ResetState(InitialGameState(as_secs(StartTime)), StartTime),
                         hs, StartTime), 2, StartTime)

InitPlay ==
    \E log \in PlayLogs :
        LET hs == PlayRecord(log)
            board == <<<<"b", hs.score>>, <<"a", PlayChallenger(hs).score>>>>
        IN  /\ now = StartTime
            /\ tick = 0
            /\ pc = "record"
            /\ todo = {}
            /\ hdc = "done"
            /\ conn = [p \in Players |-> IF p = "a" THEN "active" ELSE "none"]
            /\ st = [p \in Players |-> IF p = "a" THEN PlayChallenger(hs) ELSE Absent]
            /\ pos = [p \in Players |-> IF p = "a" THEN st[p].blocks[1] ELSE START_POS]
            /\ rm = [p \in Players |-> IF p = "a" THEN 1 ELSE 0]
            /\ npcs = (1 :> NewNpc("a", hs, StartTime))
            /\ next_npc = 2
            /\ highscore = <<hs>>
            /\ scores = LoadedScores(board)
            /\ last_saved_top_15 = board
            /\ disk = save_game_data(<<hs>>, board)
            /\ run = [p \in Players |-> NoRun]
            /\ hs_run = NoRun
            /\ ev = NoEvent

\* the start of a tick in which the challenger stays; the clock stops at PlayHorizon
PlayTick ==
    /\ tick' = IF tick < PlayTicks THEN tick + 1 ELSE tick
    /\ \E d \in PlayDeltas :
          Tick({"a"}, {<<"stay", 0>>}, MaxScore,
               IF now + d < PlayHorizon THEN now + d ELSE PlayHorizon)

NextPlay ==
    \/ PlayTick
    \/ \E p \in Players, ord \in Orders(Players) : ResetClient(p, ord, TRUE)
    \/ \E p \in Players, ord \in Orders(Players) : ManageBlocks(p, ord, TRUE)
    \/ RecordPlayerMovements
    \/ UpdateReplayNpcs

\* the schedule runs every tick for as long as the server runs
SpecPlay == InitPlay /\ [][NextPlay]_vars /\ WF_vars(NextPlay)

-----------------------------------------------------------------------------
(* SpecPath: the path of one player alone.  The player has just been reset,  *)
(* on any seed and under either bias mode.  It first lands at window index   *)
(* 10 up to PathRuns times (a long run), and then makes PathSteps steps of   *)
(* any kind: it lands at window index 1 or 10, falls and is reset some       *)
(* seconds later, or requests the ghost of a record of some seed.            *)

PathSteps == 5

\* the most landings of the long run at the start
PathRuns == 9

\* the seconds between a run and the reset that follows it
PathDeltas == {1000, 3000}

\* the seeds of the records a ghost is requested of
PathSeeds == {2, 5}

InitPath ==
    \E seed \in Seeds, target_y \in {0, START_POS[2]} :
        /\ now = StartTime
        /\ tick = 0
        /\ pc = "input"
        /\ todo = {}
        /\ hdc = "done"
        /\ conn = [p \in Players |-> IF p = "a" THEN "active" ELSE "none"]
        /\ pos = [p \in Players |-> START_POS]
        /\ st = [p \in Players |->
                    IF p = "a"
                    THEN GenerateBlocks(SeededState(seed, target_y), INITIAL_BLOCKS, FALSE,
                                        StartTime)
                    ELSE Absent]
        /\ rm = [p \in Players |-> 0]
        /\ npcs = <<>>
        /\ next_npc = 1
        /\ highscore = NoHighScore
        /\ scores = EmptyScores
        /\ last_saved_top_15 = <<>>
        /\ disk = NoFile
        /\ run = [p \in Players |-> NoRun]
        /\ hs_run = NoRun
        /\ ev = NoEvent

\* a landing of the long run of p at the start, at window index INITIAL_BLOCKS
PathRun(p) ==
    /\ tick = 0
    /\ st[p].score < PathRuns * INITIAL_BLOCKS
    /\ st' = [st EXCEPT ![p] = LandState(st[p], INITIAL_BLOCKS, now)]
    /\ ev' = Event("land", p, INITIAL_BLOCKS, "none")
    /\ UNCHANGED <<now, tick, pc, todo, hdc, conn, pos, rm, npcs, next_npc, highscore,
                   scores, last_saved_top_15, disk, run, hs_run>>

\* one step of the path of p: the new GameState s at the clock time t
PathStep(p, kind, i, s, t) ==
    /\ tick < PathSteps
    /\ tick' = tick + 1
    /\ now' = t
    /\ st' = [st EXCEPT ![p] = s]
    /\ ev' = Event(kind, p, i, "none")
    /\ UNCHANGED <<pc, todo, hdc, conn, pos, rm, npcs, next_npc, highscore, scores,
                   last_saved_top_15, disk, run, hs_run>>

\* a landing of p at window index i
PathLand(p, i) == PathStep(p, "land", i, LandState(st[p], i, now), now)

\* a fall of p, reset d ms after the last step
PathReset(p, d) == PathStep(p, "fall", 0, ResetState(st[p], now + d), now + d)

\* a ghost request of p for a record of the given seed
PathGhost(p, seed) ==
    PathStep(p, "ghost", 0, GhostState(st[p], [seed |-> seed], now), now)

NextPath ==
    \/ PathRun("a")
    \/ \E i \in {1, INITIAL_BLOCKS} : PathLand("a", i)
    \/ \E d \in PathDeltas : PathReset("a", d)
    \/ \E seed \in PathSeeds : PathGhost("a", seed)

SpecPath == InitPath /\ [][NextPath]_vars

-----------------------------------------------------------------------------
(* Properties *)

\* c is a foothold generate_random_block can place after foothold b
IsNextFoothold(b, c) ==
    LET dx == c[1] - b[1]
        dy == c[2] - b[2]
        dz == c[3] - b[3]
    IN  /\ dx \in -3..3
        /\ dy \in -1..1
        /\ dz \in (IF dy = 1 THEN 1..2 ELSE IF dy = -1 THEN 2..4 ELSE 1..3)

\* two paths are the same foothold for foothold, as far as both go
SamePath(a, b) ==
    \A k \in 1..(IF Len(a) < Len(b) THEN Len(a) ELSE Len(b)) : a[k] = b[k]

(* C1: a landing at window index i > 0, for any i up to the window size minus *)
(* one, adds exactly i to the score, removes the i oldest footholds from the  *)
(* front of the window, appends i newly generated footholds at the back, and  *)
(* leaves the window size as it was.  Checked under SpecRun.                  *)
C1_LandingSlidesWindow ==
    ev.kind = "land" =>
        LET old == ev.old
            new == st[ev.p]
            i == ev.i
            n == Len(old.blocks)
        IN  /\ i > 0 /\ i <= n - 1
            /\ new.score = old.score + i
            /\ Len(new.blocks) = n
            /\ SubSeq(new.blocks, 1, n - i) = SubSeq(old.blocks, i + 1, n)
            /\ \A k \in (n - i + 1)..n :
                  /\ IsNextFoothold(new.blocks[k - 1], new.blocks[k])
                  /\ \A j \in 1..n : old.blocks[j] # new.blocks[k]

\* a landing on the last foothold of the window, in a run that has scored before
C1_Witness ==
    /\ ev.kind = "land"
    /\ ev.i = INITIAL_BLOCKS
    /\ ev.old.score > 0
    /\ st[ev.p].score = ev.old.score + INITIAL_BLOCKS
    /\ st[ev.p].blocks[1] = ev.old.blocks[INITIAL_BLOCKS + 1]

(* C2: from a player's first reset on, through landings, falls and ghost      *)
(* requests, and after the player left, the player's window holds exactly 11  *)
(* footholds.  Checked under SpecSolo.                                        *)
C2_WindowHoldsEleven ==
    \A p \in Players :
        conn[p] \in {"active", "left"} => Len(st[p].blocks) = INITIAL_BLOCKS + 1

\* a landing in a ghost run, of a player who fell before
C2_Witness ==
    /\ ev.kind = "land"
    /\ rm[ev.p] # 0
    /\ highscore # NoHighScore
    /\ Len(st[ev.p].blocks) = INITIAL_BLOCKS + 1

(* C3, as the code has it: on a landing at window index i > 0 with combo c, e *)
(* ms after the last foothold was generated, the combo becomes c + i if e is  *)
(* less than the budget 1000 * i / 2^(c/45) cut to whole milliseconds, and 0  *)
(* if not.  Checked under SpecRun.                                            *)
C3_ComboWithinWholeBudget ==
    ev.kind = "land" =>
        LET c == ev.old.combo
            i == ev.i
            e == now - ev.old.last_block_timestamp
        IN  st[ev.p].combo = IF e < max_time_taken(i, c) THEN c + i ELSE 0

\* scenario B: combo 0, a landing at index 3 after 100 ms: the combo becomes 3
C3_Witness ==
    /\ ev.kind = "land"
    /\ ev.old.combo = 0
    /\ ev.i = 3
    /\ now - ev.old.last_block_timestamp = 100
    /\ st[ev.p].combo = 3
    /\ st[ev.p].score = ev.old.score + 3

(* C3 as stated: the combo becomes c + i if e < 1000 * i / 2^(c/45), a real   *)
(* number, and 0 if not.  For c a multiple of 45 the budget is the rational   *)
(* 1000 * i / 2^(c/45); for any other c it is irrational, and a whole e is    *)
(* less than it exactly when e is at most its whole part.                     *)
C3_ComboWithinRealBudget ==
    ev.kind = "land" =>
        LET c == ev.old.combo
            i == ev.i
            e == now - ev.old.last_block_timestamp
            within == IF c % COMBO_HALVING = 0
                      THEN e * Pow2(c \div COMBO_HALVING) < 1000 * i
                      ELSE e <= max_time_taken(i, c)
        IN  st[ev.p].combo = IF within THEN c + i ELSE 0

(* C4: the global highscore record changes only by being replaced with a      *)
(* record of a strictly greater score, or, when there is none, with a record  *)
(* of a score > 0: its score never decreases and an equal score never         *)
(* replaces it.  Checked under Spec.                                          *)
C4_HighscoreOnlyGrows ==
    [][highscore' # highscore =>
          /\ highscore' # NoHighScore
          /\ IF highscore = NoHighScore
             THEN highscore'[1].score > 0
             ELSE highscore'[1].score > highscore[1].score]_vars

\* the end of a run that replaced an existing record
C4_Witness ==
    /\ ev.kind \in {"fall", "disc"}
    /\ ev.hs # NoHighScore
    /\ highscore # ev.hs
    /\ highscore[1].score > ev.hs[1].score

(* C5: when a run ends, by a fall below the floor or by the player's          *)
(* disconnect, the score, seed and movement log it had before the reset are   *)
(* compared with the global record: if the score qualifies the record becomes *)
(* exactly the player's name, that score, that seed and that log, and if not  *)
(* the record is unchanged.  Checked under Spec.                              *)
C5_RecordOfEndedRun ==
    ev.kind \in {"fall", "disc"} =>
        LET old == ev.old
            qualifies == IF ev.hs = NoHighScore THEN old.score > 0
                         ELSE old.score > ev.hs[1].score
        IN  highscore = IF qualifies
                        THEN <<[username |-> ev.p, score |-> old.score, seed |-> old.seed,
                                movements |-> old.movements]>>
                        ELSE ev.hs

\* a disconnect that set the record, with a log of at least one sample
C5_Witness ==
    /\ ev.kind = "disc"
    /\ highscore # ev.hs
    /\ highscore[1].username = ev.p
    /\ highscore[1].movements # <<>>

(* C6: for every name, the best score of the mapping never decreases over     *)
(* landings, resets, ghost requests and disconnects, and an entry is written  *)
(* only by a landing of that name whose score is strictly greater than the    *)
(* name's entry, or whose name has no entry.  Checked under SpecSolo.         *)
C6_BestScoresOnlyGrow ==
    [][/\ \A n \in DOMAIN scores : n \in DOMAIN scores' /\ scores'[n] >= scores[n]
       /\ \A n \in DOMAIN scores' :
             (n \notin DOMAIN scores \/ scores'[n] # scores[n]) =>
                /\ ev'.kind = "land"
                /\ ev'.p = n
                /\ scores'[n] = st'[n].score
                /\ n \in DOMAIN scores => scores'[n] > scores[n]]_vars

\* a landing that brought a later run to a score below the player's best
C6_Witness ==
    /\ ev.kind = "land"
    /\ ev.p \in DOMAIN scores
    /\ st[ev.p].score < scores[ev.p]

(* C7, as the code has it: at all times the last saved top-15 snapshot has at *)
(* most 15 entries of distinct names, is sorted descending by score with      *)
(* equal scores next to each other, and every entry is a name of the mapping  *)
(* with a score the name's best has reached; and whenever the snapshot        *)
(* changes, it becomes (name, best score) pairs of the mapping that hold the  *)
(* mapping's 15 highest values.  Checked under SpecBoard.                     *)
C7_SnapshotIsSavedTop15 ==
    /\ [](/\ Len(last_saved_top_15) <= TOP_K
          /\ \A j, k \in DOMAIN last_saved_top_15 :
                j < k => /\ last_saved_top_15[j][2] >= last_saved_top_15[k][2]
                         /\ last_saved_top_15[j][1] # last_saved_top_15[k][1]
          /\ \A k \in DOMAIN last_saved_top_15 :
                /\ last_saved_top_15[k][1] \in DOMAIN scores
                /\ last_saved_top_15[k][2] <= scores[last_saved_top_15[k][1]])
    /\ [][last_saved_top_15' # last_saved_top_15 =>
             LET snap == last_saved_top_15'
                 size == Cardinality(DOMAIN scores')
                 inside == {snap[k][1] : k \in DOMAIN snap}
             IN  /\ Len(snap) = IF size < TOP_K THEN size ELSE TOP_K
                 /\ \A k \in DOMAIN snap :
                       snap[k][1] \in DOMAIN scores' /\ scores'[snap[k][1]] = snap[k][2]
                 /\ \A n \in DOMAIN scores' \ inside :
                       \A k \in DOMAIN snap : scores'[n] <= snap[k][2]]_vars

\* more than 15 names in the mapping, and a snapshot of 15 that took the last name in
\* and left an earlier one out
C7_Witness ==
    /\ Cardinality(DOMAIN scores) > TOP_K
    /\ Len(last_saved_top_15) = TOP_K
    /\ \E k \in DOMAIN last_saved_top_15 : last_saved_top_15[k][1] = BoardNames[TOP_K + 1]
    /\ \A k \in DOMAIN last_saved_top_15 : last_saved_top_15[k][1] # BoardNames[TOP_K]

(* C7 as stated: at all times the last saved snapshot has at most 15 entries, *)
(* is sorted strictly descending by score, every entry is a (name, best       *)
(* score) pair of the mapping, and it holds the mapping's 15 highest values.  *)
C7_SnapshotStrictlySorted ==
    LET snap == last_saved_top_15
        size == Cardinality(DOMAIN scores)
        inside == {snap[k][1] : k \in DOMAIN snap}
    IN  /\ Len(snap) <= TOP_K
        /\ \A j, k \in DOMAIN snap : j < k => snap[j][2] > snap[k][2]
        /\ \A k \in DOMAIN snap :
              snap[k][1] \in DOMAIN scores /\ scores[snap[k][1]] = snap[k][2]
        /\ Len(snap) = IF size < TOP_K THEN size ELSE TOP_K
        /\ \A n \in DOMAIN scores \ inside : \A k \in DOMAIN snap : scores[n] <= snap[k][2]

(* C8: after a ghost request made while a record exists, the challenger's     *)
(* seed is the record's seed, the challenger's score is 0, and the            *)
(* regenerated window and every foothold generated after it are the path the  *)
(* recorded run was given from its start, whatever the challenger's state was *)
(* before the request.  Checked under SpecDeep.                               *)
C8_GhostRunsRecordedPath ==
    /\ ev.kind = "ghost" =>
          /\ st[ev.p].seed = ev.hs[1].seed
          /\ st[ev.p].score = 0
    /\ \A p \in Players : run[p].ref # <<>> => SamePath(run[p].path, run[p].ref)

(* C9: path generation is deterministic: two runs whose streams are seeded    *)
(* with the same seed, which start from the spawn foothold under the same     *)
(* bias mode, are given the same footholds, step for step, however many each  *)
(* has generated.  Checked under SpecGen.                                     *)
C9_SameSeedSamePath ==
    \A p, q \in Players :
        (/\ st[p].seed = st[q].seed
         /\ run[p].t0 = run[q].t0
         /\ run[p].path # <<>> /\ run[q].path # <<>>
         /\ run[p].path[1] = run[q].path[1])
            => SamePath(run[p].path, run[q].path)

\* two runs of three generated footholds each, generated at different times, one of
\* them under the bias towards the spawn height
C9_Witness ==
    \E p, q \in Players :
        /\ p # q
        /\ st[p].seed = st[q].seed
        /\ run[p].t0 = START_POS[2] /\ run[q].t0 = START_POS[2]
        /\ Len(run[p].path) = 4 /\ Len(run[q].path) = 4
        /\ st[p].last_block_timestamp # st[q].last_block_timestamp
        /\ st[p].score # st[q].score

(* C10: recording begins on the first landing at a window index i > 0 of a    *)
(* run, whatever i is: after that landing the recording flag is set and the   *)
(* recording start time is the time of the tick, no sample was appended       *)
(* before it, and so every run with a score > 0 is recording.  Checked under  *)
(* Spec.                                                                      *)
C10_RecordingFromFirstLanding ==
    /\ (ev.kind = "land" /\ ev.old.score = 0) =>
          /\ st[ev.p].recording_started
          /\ st[ev.p].movement_start_time = now
          /\ ev.old.movements = <<>>
    /\ \A p \in Players :
          (conn[p] = "active" /\ st[p].score > 0) => st[p].recording_started

(* C11: a ghost's started flag stays false and its output position stays     *)
(* where it was on every playback update during which its owner's score is   *)
(* 0; the first update at which the owner's score is above 0 sets the flag   *)
(* and sets the playback start time to the time of that update; no other     *)
(* step sets the flag, and once it is set the flag is never cleared and the  *)
(* start time is never set again.  Checked under SpecSolo.                   *)
C11_GhostStartsAtFirstScore ==
    [][\A id \in DOMAIN npcs :
          LET n == npcs[id]
              update == pc = "npcs" /\ pc' = "input"
          IN  /\ update /\ ~n.replay_started /\ st[n.owner_entity].score = 0
                  => id \in DOMAIN npcs' /\ npcs'[id] = n
              /\ update /\ ~n.replay_started /\ st[n.owner_entity].score > 0
                        /\ n.movements # <<>>
                  => /\ id \in DOMAIN npcs'
                     /\ npcs'[id].replay_started
                     /\ npcs'[id].start_time = now
              /\ id \in DOMAIN npcs' /\ ~n.replay_started /\ npcs'[id].replay_started
                  => update /\ st[n.owner_entity].score > 0
              /\ id \in DOMAIN npcs' /\ n.replay_started
                  => /\ npcs'[id].replay_started
                     /\ npcs'[id].start_time = n.start_time]_vars

\* after a playback update, a ghost that waited for its owner's first landing has
\* just begun, at the time of this tick and later than the request that created it
C11_Witness ==
    /\ pc = "input"
    /\ ev.kind = "none"
    /\ \E id \in DOMAIN npcs :
         /\ npcs[id].replay_started
         /\ npcs[id].start_time = now
         /\ rm[npcs[id].owner_entity] = id
         /\ st[npcs[id].owner_entity].score > 0

\* ghost id has begun, has a non-empty log, and its playback time is past the timestamp
\* of the last sample
LogExhausted(id) ==
    /\ id \in DOMAIN npcs
    /\ npcs[id].replay_started
    /\ npcs[id].movements # <<>>
    /\ now - npcs[id].start_time > npcs[id].movements[Len(npcs[id].movements)].timestamp

(* C12: a ghost that has begun and has a non-empty log is eventually          *)
(* destroyed, by the exhaustion of its log, once its playback time has        *)
(* passed the timestamp of its last sample and playback updates keep being    *)
(* applied, even if its owner never falls, disconnects or requests a new      *)
(* ghost.  Checked under SpecPlay, where the owner does none of these.        *)
C12_ExhaustedGhostIsDestroyed ==
    \A id \in 1..MaxNpcs : [](LogExhausted(id) => <>(id \notin DOMAIN npcs))

(* C13: a ghost created from a record with 0 movement samples is destroyed on *)
(* its first playback update, whether or not the challenger has scored yet,  *)
(* and the challenger goes on with the record's seed and no ghost: after the  *)
(* playback update of any tick later than the tick of the request, no ghost   *)
(* with an empty log is left.  Checked under SpecSolo.                        *)
C13_EmptyLogGhostDestroyedAtOnce ==
    pc = "input" =>
        \A id \in DOMAIN npcs :
            npcs[id].movements = <<>> => ~npcs[id].replay_started /\ npcs[id].start_time = now

(* C14: when a challenger's run ends by a fall reset or a disconnect, the     *)
(* ghost it holds, if any, is destroyed, and after a reset the challenger     *)
(* holds no ghost reference; no ghost outlives its owner's run: every live    *)
(* ghost is the one its owner holds, and its owner is a connected player in   *)
(* a run, or one whose disconnect is still to be handled in this tick.        *)
(* Checked under SpecSolo.                                                    *)
C14_NoGhostOutlivesRun ==
    /\ ev.kind \in {"first", "fall"} => rm[ev.p] = 0 /\ ev.ghost \notin DOMAIN npcs
    /\ ev.kind = "disc" => ev.ghost \notin DOMAIN npcs
    /\ \A id \in DOMAIN npcs :
         LET owner == npcs[id].owner_entity
         IN  /\ rm[owner] = id
             /\ \/ conn[owner] = "active"
                \/ /\ conn[owner] = "left"
                   /\ hdc = "pending" \/ (hdc = "running" /\ owner \in todo)

\* a fall reset of a challenger whose ghost was live
C14_Witness == ev.kind = "fall" /\ ev.live /\ ev.ghost \notin DOMAIN npcs

\* a disconnect of a challenger whose ghost was live
C14_DisconnectReached == ev.kind = "disc" /\ ev.live

(* C15: each challenger owns at most one live ghost at any time; a ghost      *)
(* request by a challenger who holds a ghost destroys that ghost before the   *)
(* new one is bound, and the new ghost has cursor 0, started = false and a    *)
(* copy of the record's log, also when the requests come in consecutive       *)
(* ticks.  Checked under SpecSolo.                                            *)
C15_OneGhostPerChallenger ==
    /\ \A p \in Players :
         Cardinality({id \in DOMAIN npcs : npcs[id].owner_entity = p}) <= 1
    /\ ev.kind = "ghost" =>
         /\ rm[ev.p] \in DOMAIN npcs
         /\ rm[ev.p] # ev.ghost
         /\ ev.ghost \notin DOMAIN npcs
         /\ npcs[rm[ev.p]].owner_entity = ev.p
         /\ npcs[rm[ev.p]].current_index = 0
         /\ ~npcs[rm[ev.p]].replay_started
         /\ npcs[rm[ev.p]].movements = ev.hs[1].movements

\* a request in tick 5 by a challenger whose ghost, of a log with samples, was live: the
\* record is of tick 3 at the earliest, so that ghost is of the request of tick 4
C15_Witness ==
    /\ ev.kind = "ghost"
    /\ ev.live
    /\ tick = 5
    /\ ev.hs[1].movements # <<>>

\* the playback time update_replay_npcs computes for ghost n at the clock time of the state
Elapsed(n) == saturating_sub(now, n.start_time)

\* the output position of ghost n is exactly the position of its sample k (1-based)
OutputIs(n, k) ==
    \A j \in DOMAIN n.position.num :
        n.position.num[j] = n.movements[k].position[j] * n.position.den

\* the output position of ghost n lies, in every coordinate, between those of its
\* samples k and k + 1
OutputBetween(n, k) ==
    \A j \in DOMAIN n.position.num :
        LET x == n.position.num[j]
            a == n.movements[k].position[j] * n.position.den
            b == n.movements[k + 1].position[j] * n.position.den
        IN  (a <= x /\ x <= b) \/ (b <= x /\ x <= a)

\* the output of every started ghost lies between its current and its next sample, and
\* is the last sample when the cursor is on it
NoOvershoot ==
    \A id \in DOMAIN npcs :
        LET n == npcs[id]
            k == n.current_index + 1
        IN  n.replay_started =>
               IF k < Len(n.movements) THEN OutputBetween(n, k) ELSE OutputIs(n, k)

(* C16: for a started ghost whose log has non-decreasing timestamps, a        *)
(* playback update at which the elapsed playback time equals the timestamp    *)
(* of a sample s outputs exactly the position of s, provided that s is the    *)
(* last sample with that timestamp; and for every elapsed time the output     *)
(* lies componentwise between the current and the next sample.  Checked       *)
(* under SpecPlay, in the states that follow a playback update.               *)
C16_OutputHitsLastSampleOfItsTime ==
    pc = "input" =>
        /\ NoOvershoot
        /\ \A id \in DOMAIN npcs :
             LET n == npcs[id]
             IN  n.replay_started =>
                   \A k \in 1..Len(n.movements) :
                       /\ n.movements[k].timestamp = Elapsed(n)
                       /\ k < Len(n.movements) => n.movements[k + 1].timestamp > Elapsed(n)
                       => OutputIs(n, k)

\* a playback update at the timestamp of the sample the cursor has just moved to, in a
\* log whose samples are at different positions and times
C16_Witness ==
    /\ pc = "input"
    /\ \E id \in DOMAIN npcs :
         LET n == npcs[id]
             k == n.current_index + 1
         IN  /\ n.replay_started
             /\ k > 1
             /\ n.movements[k].timestamp = Elapsed(n)
             /\ n.movements[k - 1].timestamp < Elapsed(n)
             /\ n.movements[k - 1].position # n.movements[k].position
             /\ OutputIs(n, k)

\* a playback update strictly between two samples at different positions
C16_StrictlyBetween ==
    /\ pc = "input"
    /\ \E id \in DOMAIN npcs :
         LET n == npcs[id]
             k == n.current_index + 1
         IN  /\ n.replay_started
             /\ k < Len(n.movements)
             /\ ~OutputIs(n, k)
             /\ ~OutputIs(n, k + 1)

(* C16 as stated: at an elapsed playback time equal to the timestamp of a     *)
(* sample s the output is exactly the position of s, for every sample s of    *)
(* a log with non-decreasing timestamps, and the output never overshoots.     *)
C16_OutputHitsEverySample ==
    pc = "input" =>
        /\ NoOvershoot
        /\ \A id \in DOMAIN npcs :
             LET n == npcs[id]
             IN  n.replay_started =>
                   \A k \in 1..Len(n.movements) :
                       n.movements[k].timestamp = Elapsed(n) => OutputIs(n, k)

\* the window and the stream of state s are those that INITIAL_BLOCKS generations out
\* of the game make from the spawn foothold and a stream freshly seeded with s.seed
FreshlyGenerated(s, t) ==
    \E target_y \in {0, START_POS[2]} :
        LET g == GenerateBlocks(SeededState(s.seed, target_y), INITIAL_BLOCKS, FALSE, t)
        IN  s.blocks = g.blocks /\ s.rng = g.rng

(* C17: immediately after every reset, at the first spawn or after a fall,    *)
(* the score is 0, the combo is 0, the recording flag is false, the movement  *)
(* log is empty, the seed is the new one and the stream is the one freshly    *)
(* seeded with it, and the window is the spawn foothold followed by 10        *)
(* generated footholds whose generation added nothing to the score.  Checked  *)
(* under SpecSolo.                                                            *)
C17_ResetStartsFreshRun ==
    ev.kind \in {"first", "fall"} =>
        LET s == st[ev.p]
        IN  /\ s.score = 0
            /\ s.combo = 0
            /\ ~s.recording_started
            /\ s.movements = <<>>
            /\ s.seed = as_secs(now)
            /\ Len(s.blocks) = INITIAL_BLOCKS + 1
            /\ s.blocks[1] = START_POS
            /\ \A k \in 1..INITIAL_BLOCKS : IsNextFoothold(s.blocks[k], s.blocks[k + 1])
            /\ FreshlyGenerated(s, now)

\* a fall reset of a run that had a score, a combo, a movement log and another seed
C17_Witness ==
    /\ ev.kind = "fall"
    /\ ev.old.score > 0
    /\ ev.old.combo > 0
    /\ ev.old.recording_started
    /\ ev.old.movements # <<>>
    /\ ev.old.seed # st[ev.p].seed

(* C18: every reset puts the vertical-bias mode back to Neutral before the    *)
(* footholds of the new run are generated, so that the run's first window     *)
(* does not depend on the path of the run before: right after a reset the     *)
(* window is the one generated from the new seed under the Neutral mode.      *)
(* Checked under SpecDeep.                                                    *)
C18_ResetStartsNeutral ==
    ev.kind \in {"first", "fall"} =>
        st[ev.p].blocks =
            GenerateBlocks(SeededState(st[ev.p].seed, 0), INITIAL_BLOCKS, FALSE, now).blocks

\* a run of ev.p with a score above 0 has just ended while no record existed
FirstRecordSet == ev.kind \in {"fall", "disc"} /\ ev.hs = NoHighScore /\ ev.old.score > 0

\* ev.p owns the record, with the score of the run that has just ended
OwnsNewRecord ==
    /\ highscore # NoHighScore
    /\ highscore[1].username = ev.p
    /\ highscore[1].score = ev.old.score

\* the snapshot is the top 15 of the mapping as it is now
SnapshotCurrent == \E ord \in Orders(Players) : last_saved_top_15 = CurrentTop15(scores, ord)

C20_FailedWriteKeepsState ==
    [][ev'.write = "failed" =>
          LET p == ev'.p
          IN  /\ disk' = disk
              /\ last_saved_top_15' = last_saved_top_15
              /\ ev'.kind = "land" =>
                    /\ scores' = BestAfter(scores, p, st'[p].score)
                    /\ scores' # scores
                    /\ st' = [st EXCEPT ![p] = LandState(st[p], ev'.i, now)]
                    /\ highscore' = highscore
              /\ ev'.kind \in {"fall", "disc"} =>
                    /\ highscore' = <<MakeHighScore(p, st[p])>>
                    /\ highscore' # highscore
                    /\ scores' = scores
              /\ ev'.kind = "fall" => st' = [st EXCEPT ![p] = ResetState(st[p], now)]
              /\ ev'.kind \in {"land", "fall"} =>
                    IF todo = {p} THEN pc' # pc ELSE pc' = pc /\ todo' = todo \ {p}
              /\ ev'.kind = "disc" =>
                    IF hdc = "pending" THEN Left \ {p} # {} => hdc' = "running" /\ todo' = Left \ {p}
                    ELSE todo \ {p} # {} => todo' = todo \ {p}]_vars

\* a landing whose save failed: the mapping holds the new score, nothing of it is in the
\* snapshot, and the other player is still to be visited in this tick
C20_Witness ==
    /\ ev.kind = "land"
    /\ ev.write = "failed"
    /\ scores[ev.p] = st[ev.p].score
    /\ \A k \in DOMAIN last_saved_top_15 : last_saved_top_15[k] # <<ev.p, scores[ev.p]>>
    /\ pc = "blocks"
    /\ todo = Players \ {ev.p}

\* the end of a run whose save of the new record failed
C20_FailedRecordSave ==
    /\ ev.kind \in {"fall", "disc"}
    /\ ev.write = "failed"
    /\ highscore # NoHighScore
    /\ disk = NoFile \/ disk[1].highscore # highscore

(* C21: a ghost request made while no global record exists is an ordinary     *)
(* no-data condition: the step creates no ghost and leaves the challenger's   *)
(* seed, stream, score, window and ghost reference, the record, the mapping   *)
(* and the file as they were.  Checked under SpecSolo.                        *)
C21_RequestWithoutRecordChangesNothing ==
    [][ev'.kind = "nodata" =>
          /\ highscore = NoHighScore
          /\ pos[ev'.p] = GOLD_BLOCK_POS
          /\ UNCHANGED <<st, rm, npcs, next_npc, pos, highscore, scores,
                         last_saved_top_15, disk>>]_vars

\* a player in a run that has scored has stepped on the gold block while no record exists
C21_Witness ==
    /\ ev.kind = "nodata"
    /\ ev.old.score > 0
    /\ st[ev.p] = ev.old
    /\ npcs = <<>>
    /\ rm[ev.p] = 0

\* the order of the stages of a tick, as pairs of successive positions of the schedule
StageOrder ==
    {<<"input", "init">>, <<"input", "reset">>, <<"input", "record">>, <<"init", "reset">>,
     <<"reset", "blocks">>, <<"blocks", "record">>, <<"record", "npcs">>, <<"npcs", "input">>}

(* C22: within every tick the stages run in the fixed order reset, landing    *)
(* and scoring, movement recording, ghost playback, disconnect finalization:  *)
(* the disconnect of a player is finalized only after the ghost playback of   *)
(* the tick, never before the landing stage and never between two other       *)
(* stages.  Checked under Spec.                                               *)
C22_StagesInFixedOrder ==
    [][/\ pc' # pc => <<pc, pc'>> \in StageOrder
       /\ ev'.kind = "disc" => pc = "input"]_vars

\* b was generated from its predecessor a under the bias mode target_y, as the claim says
StepUnderBias(a, b, target_y) ==
    LET dx == b[1] - a[1]
        dy == b[2] - a[2]
        dz == b[3] - a[3]
    IN  /\ dx \in -3..3
        /\ IF target_y = 0 THEN dy \in {-1, 0, 1}
           ELSE IF target_y > a[2] THEN dy = 1
           ELSE dy = -1
        /\ IF dy = 1 THEN dz \in 1..2
           ELSE IF dy = -1 THEN dz \in 2..4
           ELSE dz \in 1..3

(* C23: every generated foothold differs from its predecessor by (dx, dy,     *)
(* dz) with dx in -3..3; dy in {-1, 0, 1} under the Neutral bias, dy = 1      *)
(* under ReturnToBaseline when the baseline is above the predecessor and      *)
(* dy = -1 under ReturnToBaseline otherwise; dz in 1..2 when dy = 1, in 2..4  *)
(* when dy = -1, in 1..3 when dy = 0.  Checked under SpecPath, on the         *)
(* foothold that a landing at window index 1 generates, and on every pair of  *)
(* neighbours of every window.                                                *)
C23_FootholdDeltas ==
    [][/\ ev'.kind = "land" /\ ev'.i = 1 =>
            LET s == st[ev'.p]
                s2 == st'[ev'.p]
            IN  StepUnderBias(s.blocks[Len(s.blocks)], s2.blocks[Len(s2.blocks)], s.target_y)
       /\ \A p \in Players : \A k \in 1..(Len(st'[p].blocks) - 1) :
            \E target_y \in {0, START_POS[2]} :
                StepUnderBias(st'[p].blocks[k], st'[p].blocks[k + 1], target_y)]_vars

\* a foothold has just been generated upwards under ReturnToBaseline, from a predecessor
\* below the band around the baseline
C23_Witness ==
    /\ ev.kind = "land"
    /\ ev.i = 1
    /\ ev.old.target_y = START_POS[2]
    /\ ev.old.blocks[Len(ev.old.blocks)][2] < START_POS[2] - BIAS_RANGE
    /\ st[ev.p].blocks[Len(st[ev.p].blocks)][2] = ev.old.blocks[Len(ev.old.blocks)][2] + 1

\* a foothold has just been generated downwards under ReturnToBaseline
C23_ForcedDown ==
    /\ ev.kind = "land"
    /\ ev.i = 1
    /\ ev.old.target_y = START_POS[2]
    /\ ev.old.blocks[Len(ev.old.blocks)][2] > START_POS[2] + BIAS_RANGE

(* C24: vertical runaway is bounded: every foothold present in any window,    *)
(* over any sequence of resets, ghost requests and landings, has y within     *)
(* BIAS_RANGE + 2 of the baseline altitude (68 <= y <= 132 for baseline       *)
(* 100).  Checked under SpecPath.                                             *)
C24_HeightWithinBand ==
    \A p \in Players : \A k \in DOMAIN st[p].blocks :
        /\ st[p].blocks[k][2] >= START_POS[2] - (BIAS_RANGE + 2)
        /\ st[p].blocks[k][2] <= START_POS[2] + (BIAS_RANGE + 2)

\* a window holds a foothold at the greatest height, generated under the Neutral mode
\* from a predecessor just outside the band, and the path has turned downwards from it
C24_Witness ==
    \E p \in Players : \E k \in 1..(Len(st[p].blocks) - 1) :
        /\ st[p].blocks[k][2] = START_POS[2] + (BIAS_RANGE + 2)
        /\ st[p].blocks[k + 1][2] = st[p].blocks[k][2] - 1

\* the cursor of every ghost with a non-empty log indexes a sample of the log, and after
\* a playback update the cursor of a started ghost is at the last sample or before a
\* sample whose timestamp is later than the playback time
CursorInLog ==
    \A id \in DOMAIN npcs :
        LET n == npcs[id]
        IN  n.movements # <<>> =>
              /\ n.current_index >= 0
              /\ n.current_index < Len(n.movements)
              /\ pc = "input" /\ n.replay_started =>
                    \/ n.current_index = Len(n.movements) - 1
                    \/ n.movements[n.current_index + 2].timestamp > Elapsed(n)

(* C25: a ghost's playback cursor never decreases across updates and,         *)
(* whenever the log is non-empty, always indexes an existing sample; after    *)
(* each update of a started ghost the cursor is at the last sample or the     *)
(* next sample's timestamp is strictly greater than the elapsed playback      *)
(* time.  Checked under SpecPlay.                                             *)
C25_CursorMonotoneInLog ==
    /\ []CursorInLog
    /\ [][\A id \in DOMAIN npcs \cap DOMAIN npcs' :
              npcs'[id].current_index >= npcs[id].current_index]_vars

\* after a playback update the cursor has passed the first sample and is not at the last
C25_Witness ==
    /\ pc = "input"
    /\ \E id \in DOMAIN npcs :
         /\ npcs[id].replay_started
         /\ npcs[id].current_index > 0
         /\ npcs[id].current_index < Len(npcs[id].movements) - 1
         /\ npcs[id].movements[npcs[id].current_index + 2].timestamp > Elapsed(npcs[id])

\* the score of the record h, 0 when there is none
RecordScore(h) == IF h = NoHighScore THEN 0 ELSE h[1].score

(* C26: no terminating score is lost: every end of a run (fall or             *)
(* disconnect) leaves a record whose score is the greater of the record       *)
(* score before it and the final score of the run, and no step lowers the     *)
(* record score; so after a tick in which several players terminate, in any   *)
(* order, the record score is the maximum of the record score before the      *)
(* tick and all their final scores, and at every time it is at least the      *)
(* final score of every run that has ended.  Checked under Spec.              *)
C26_NoFinalScoreLost ==
    [][/\ RecordScore(highscore') >= RecordScore(highscore)
       /\ ev'.kind \in {"fall", "disc"} =>
            RecordScore(highscore') =
                IF st[ev'.p].score > RecordScore(highscore)
                THEN st[ev'.p].score
                ELSE RecordScore(highscore)]_vars

\* two runs have ended in this tick: the player who left ended first and set the record,
\* and the run that has just ended by a fall has beaten it
C26_Witness ==
    /\ ev.kind = "fall"
    /\ ev.hs # NoHighScore
    /\ ev.old.score > ev.hs[1].score
    /\ highscore[1].username = ev.p
    /\ highscore[1].score = ev.old.score
    /\ \E q \in Players \ {ev.p} :
         /\ conn[q] = "left"
         /\ hdc = "done"
         /\ ev.hs[1].username = q
         /\ ev.hs[1].score = st[q].score
         /\ ev.hs[1].seed = st[q].seed

-----------------------------------------------------------------------------
\* the footholds a run was given, as a set
Footholds(r) == {r.path[k] : k \in DOMAIN r.path}

(* C27: every movement sample of the all-time record was recorded during the  *)
(* record's own run, on the record's seed: it stands on a foothold that run   *)
(* was given (or on the gold block next to the spawn foothold), and a ghost   *)
(* request, which reseeds the challenger and zeroes the score, leaves no      *)
(* sample and no recording start time from before the request in the log a    *)
(* later record is built from.  Checked under SpecDeep.                       *)
C27_RecordLogFromItsOwnRun ==
    /\ highscore # NoHighScore =>
         \A k \in DOMAIN highscore[1].movements :
             highscore[1].movements[k].position \in Footholds(hs_run) \cup {GOLD_BLOCK_POS}
    /\ ev.kind = "ghost" =>
         /\ st[ev.p].movements = <<>>
         /\ ~st[ev.p].recording_started

\* a run that began with a ghost request has set the record, and the record's log
\* begins with a sample of the run the request abandoned
C27_StaleSampleInRecord ==
    /\ ev.kind \in {"fall", "disc"}
    /\ highscore # ev.hs
    /\ hs_run.ref # <<>>
    /\ highscore[1].movements # <<>>
    /\ highscore[1].movements[1].position \notin Footholds(hs_run)
    /\ highscore[1].seed = ev.hs[1].seed

-----------------------------------------------------------------------------
(* C28: whenever a challenger holds a ghost reference, the referenced ghost   *)
(* is live; so the ghost that a fall, a disconnect or a new ghost request     *)
(* destroys through the challenger's reference is never one that its own      *)
(* playback has destroyed before.  Checked under SpecSolo.                    *)
C28_HeldGhostIsLive ==
    /\ \A p \in Players : (conn[p] = "active" /\ rm[p] # 0) => rm[p] \in DOMAIN npcs
    /\ (ev.kind \in {"fall", "disc", "ghost"} /\ ev.ghost # 0) => ev.live

\* a fall, a disconnect or a ghost request has gone through a reference to a ghost that
\* its playback had destroyed
C28_DeadGhostDestroyedAgain ==
    /\ ev.kind \in {"fall", "disc", "ghost"}
    /\ ev.ghost # 0
    /\ ~ev.live

====
